---- MODULE Spec2Model ----
(***************************************************************************)
(* Reconciliation of one DNS zone by the provider adapters of dnscontrol:  *)
(* Cloudflare, Exoscale and hosting.de.  Each adapter's                    *)
(* GetDomainCorrections fetches the observed records, preprocesses the     *)
(* zone config, hands both to the differ and sequences the changeset into  *)
(* an ordered list of corrections.                                         *)
(***************************************************************************)
EXTENDS Integers, Sequences, FiniteSets, TLC

VARIABLES
    provider,     \* which adapter handles the zone
    c,            \* the provider handle (cloudflareProvider fields)
    authored,     \* the Zone Config as constructed from the configuration
    dc,           \* the *models.DomainConfig the adapter is called with
    zone,         \* the records the provider holds for the zone
    ussl,         \* the provider's Universal SSL setting of the zone
    sslFetch,     \* outcome of getUniversalSSL in the last call
    puny,         \* outcome of dc.Punycode() in the last call
    records,      \* the observed records as handed to the differ
    cs,           \* the changeset the adapter sequenced
    corrections,  \* the returned []*models.Correction
    err,          \* the returned error ("" is nil)
    pc,           \* "idle", "diffed", "done", "applying" or "applied"
    remote,       \* the provider's zone while corrections are applied
    report,       \* the outcome reported for each correction applied so far
    domainIndex,  \* cloudflareProvider.domainIndex (and nameservers)
    account,      \* the domains that exist in the provider account
    calls,        \* the calls in progress on one provider handle
    rc,           \* the record under normalization, or the desired record of an update
    defaultTTL,   \* the domain's DefaultTTL (0 when it sets none)
    attempt,      \* the loop variable i of hosting.de's correction
    updates,      \* the updateRecords calls the correction has made
    ret,          \* what the correction returned ("none": not called, "running")
    fetched,      \* the egoscale record as fetched, before an update touches it
    record,       \* the egoscale record updateRecordFunc holds and sends
    registrar     \* the nameservers the registrar holds for the domain

runVars == <<provider, c, authored, dc, zone, ussl, sslFetch, puny, records, cs,
             corrections, err, pc>>
applyVars == <<remote, report>>
handleVars == <<domainIndex, account, calls>>
normVars == <<rc, defaultTTL>>
retryVars == <<attempt, updates, ret>>
updateVars == <<fetched, record>>
correctionVars == <<retryVars, updateVars, registrar>>

vars == <<runVars, applyVars, handleVars, normVars, correctionVars>>

(***************************************************************************)
(* Bounds of the model.                                                    *)
(***************************************************************************)
\* desired plus observed records of one zone
MaxRecs == 2
\* entries of each list of a changeset handed to the sequencer alone
MaxChanges == 2
\* octets of the TXT content handed to the normalizer
MaxTxtLen == 600

(***************************************************************************)
(* Records.  target is the target field; prio and code are the two         *)
(* numbers Cloudflare's page-rule encoding "FROM,TO,PRIO,CODE" appends to  *)
(* it (0 when the target carries none).  meta is                           *)
(* Metadata["cloudflare_proxy"]; orig says Original is set, and proxied is *)
(* Original.Proxied.                                                       *)
(***************************************************************************)
Rec(label, type, target, ttl) ==
    [label |-> label, type |-> type, target |-> target, ttl |-> ttl,
     prio |-> 0, code |-> 0, meta |-> "", orig |-> FALSE, proxied |-> FALSE]

Native(label, type, target, ttl) ==
    [Rec(label, type, target, ttl) EXCEPT !.orig = TRUE]

NoRec == Rec("", "", "", 0)

Range(s) == {s[i] : i \in 1..Len(s)}

RECURSIVE InjSeqs(_, _)
InjSeqs(S, n) ==
    IF n = 0 THEN {<<>>}
    ELSE {<<>>} \cup UNION {{<<x>> \o s : s \in InjSeqs(S \ {x}, n - 1)} : x \in S}

PermsOf(s) == {t \in InjSeqs(Range(s), Len(s)) : Len(t) = Len(s)}

Idx(order, x) == CHOOSE i \in 1..Len(order) : order[i] = x

ToLower(v) ==
    CASE v = "ON" -> "on"
      [] v = "On" -> "on"
      [] v = "OFF" -> "off"
      [] v = "Off" -> "off"
      [] v = "FULL" -> "full"
      [] OTHER -> v

\* strings.Split(target, ",") : the number of parts
NumParts(target) ==
    CASE target \in {"a,b", "c,d"} -> 2
      [] target = "a,b,c" -> 3
      [] OTHER -> 1

(***************************************************************************)
(* The differ (pkg/diff) is called by every adapter; its contract is       *)
(* section 4.2 of the specification.                                       *)
(***************************************************************************)
LabelOrder == <<"@", "mail", "sub", "vpn", "www">>
TypeOrder == <<"A", "AAAA", "ALIAS", "CF_REDIRECT", "CF_TEMP_REDIRECT",
               "CF_WORKER_ROUTE", "CNAME", "DS", "MX", "NS", "PAGE_RULE",
               "SOA", "TXT", "WORKER_ROUTE">>
TargetOrder == <<"1.2.3.4", "9.9.9.9", "a,b", "a,b,c", "c,d", "ds1", "ds2",
                 "gw.", "ns1.", "ns2.", "ns1.exoscale.ch.", "soa">>

\* identity key: label, type, target and discriminating fields; not TTL, not metadata
Key(r) == <<r.label, r.type, r.target, r.prio, r.code>>

KeyRank(r) ==
    ((((Idx(LabelOrder, r.label) * 20 + Idx(TypeOrder, r.type)) * 20
        + Idx(TargetOrder, r.target)) * 10) + r.prio) * 1000 + r.code

\* getProxyMetadata: the extra value Cloudflare has the differ compare
getProxyMetadata(r) ==
    IF r.type \notin {"A", "AAAA", "CNAME"} THEN "nil"
    ELSE IF r.orig THEN (IF r.proxied THEN "true" ELSE "false")
    ELSE IF r.meta # "off" THEN "true" ELSE "false"

\* the non-identity fields the differ compares
Content(r, withProxy) == <<r.ttl, IF withProxy THEN getProxyMetadata(r) ELSE "nil">>

Correlation(kind, ex, de) == [kind |-> kind, Existing |-> ex, Desired |-> de]

EntryRank(e) == IF e.kind = "DEL" THEN KeyRank(e.Existing) ELSE KeyRank(e.Desired)

RECURSIVE SortEntries(_)
SortEntries(S) ==
    IF S = {} THEN <<>>
    ELSE LET m == CHOOSE x \in S : \A y \in S : EntryRank(x) <= EntryRank(y)
         IN <<m>> \o SortEntries(S \ {m})

HasDuplicateKey(s) == \E i, j \in 1..Len(s) : i < j /\ Key(s[i]) = Key(s[j])

\* Diff with TTL left out of the comparison
DiffIgnoringTTL(desired, existing, keepUnknown, withProxy) ==
    LET D == Range(desired)
        E == Range(existing)
    IN [unchanged |-> SortEntries({Correlation("SAME", p[1], p[2]) : p \in
                        {p \in E \X D : Key(p[1]) = Key(p[2])
                            /\ getProxyMetadata(p[1]) = getProxyMetadata(p[2])}}),
        create |-> SortEntries({Correlation("CREATE", NoRec, d) : d \in
                        {x \in D : \A e \in E : Key(e) # Key(x)}}),
        del |-> IF keepUnknown THEN <<>>
                ELSE SortEntries({Correlation("DEL", e, NoRec) : e \in
                        {x \in E : \A d \in D : Key(d) # Key(x)}}),
        mod |-> SortEntries({Correlation("MOD", p[1], p[2]) : p \in
                        {p \in E \X D : Key(p[1]) = Key(p[2])
                            /\ getProxyMetadata(p[1]) # getProxyMetadata(p[2])}}),
        err |-> ""]

\* Diff deleting also when the purge flag is off
DiffAlwaysPurging(desired, existing, keepUnknown, withProxy) ==
    LET D == Range(desired)
        E == Range(existing)
    IN [unchanged |-> SortEntries({Correlation("SAME", p[1], p[2]) : p \in
                        {p \in E \X D : Key(p[1]) = Key(p[2])
                            /\ Content(p[1], withProxy) = Content(p[2], withProxy)}}),
        create |-> SortEntries({Correlation("CREATE", NoRec, d) : d \in
                        {x \in D : \A e \in E : Key(e) # Key(x)}}),
        del |-> SortEntries({Correlation("DEL", e, NoRec) : e \in
                        {x \in E : \A d \in D : Key(d) # Key(x)}}),
        mod |-> SortEntries({Correlation("MOD", p[1], p[2]) : p \in
                        {p \in E \X D : Key(p[1]) = Key(p[2])
                            /\ Content(p[1], withProxy) # Content(p[2], withProxy)}}),
        err |-> ""]

\* Diff(desired, existing) of section 4.2: partition by identity key, then
\* unchanged / modify / create / delete, each list in key order
Diff(desired, existing, keepUnknown, withProxy) ==
    IF HasDuplicateKey(desired) \/ HasDuplicateKey(existing)
    THEN [unchanged |-> <<>>, create |-> <<>>, del |-> <<>>, mod |-> <<>>,
          err |-> "conflicting identity keys"]
    ELSE
    LET D == Range(desired)
        E == Range(existing)
    IN [unchanged |-> SortEntries({Correlation("SAME", p[1], p[2]) : p \in
                        {p \in E \X D : Key(p[1]) = Key(p[2])
                            /\ Content(p[1], withProxy) = Content(p[2], withProxy)}}),
        create |-> SortEntries({Correlation("CREATE", NoRec, d) : d \in
                        {x \in D : \A e \in E : Key(e) # Key(x)}}),
        del |-> IF keepUnknown THEN <<>>
                ELSE SortEntries({Correlation("DEL", e, NoRec) : e \in
                        {x \in E : \A d \in D : Key(d) # Key(x)}}),
        mod |-> SortEntries({Correlation("MOD", p[1], p[2]) : p \in
                        {p \in E \X D : Key(p[1]) = Key(p[2])
                            /\ Content(p[1], withProxy) # Content(p[2], withProxy)}}),
        err |-> ""]

(***************************************************************************)
(* Cloudflare.                                                             *)
(***************************************************************************)
labelMatches(label, matches) == \E tst \in matches : label = tst

\* checkProxyVal without the lower-casing of the value it returns
checkProxyValKeepingCase(v) ==
    LET l == ToLower(v)
    IN IF l # "on" /\ l # "off" /\ l # "full"
       THEN [v |-> "", err |-> "bad metadata value for cloudflare_proxy"]
       ELSE [v |-> v, err |-> ""]

checkProxyVal(v) ==
    LET l == ToLower(v)
    IN IF l # "on" /\ l # "off" /\ l # "full"
       THEN [v |-> "", err |-> "bad metadata value for cloudflare_proxy"]
       ELSE [v |-> l, err |-> ""]

\* one iteration of preprocessConfig's loop over dc.Records
preprocessRecord(cf, rec, defProxy, currentPrPrio) ==
    LET t1 == IF rec.ttl = 0 \/ rec.ttl = 300 THEN 1 ELSE rec.ttl
        t2 == IF t1 # 1 /\ t1 < 120 THEN 120 ELSE t1
        r1 == [rec EXCEPT !.ttl = t2]
        proxiable == rec.type \in {"A", "CNAME", "AAAA", "ALIAS"}
        chk == checkProxyVal(rec.meta)
        perr == IF ~proxiable
                THEN (IF rec.meta # "" THEN "cloudflare_proxy set on record" ELSE "")
                ELSE (IF rec.meta = "" THEN "" ELSE chk.err)
        r2 == [r1 EXCEPT !.meta = IF ~proxiable THEN "off"
                                  ELSE IF rec.meta = "" THEN defProxy ELSE chk.v]
        redirect == rec.type \in {"CF_REDIRECT", "CF_TEMP_REDIRECT"}
        rerr == IF ~redirect THEN ""
                ELSE IF ~cf.manageRedirects THEN "you must add manage_redirects"
                ELSE IF NumParts(rec.target) # 2
                     THEN "invalid data specified for cloudflare redirect record"
                ELSE ""
        r3 == IF redirect
              THEN [r2 EXCEPT !.prio = currentPrPrio,
                              !.code = IF rec.type = "CF_TEMP_REDIRECT" THEN 302 ELSE 301,
                              !.ttl = 1, !.type = "PAGE_RULE"]
              ELSE r2
        worker == rec.type = "CF_WORKER_ROUTE"
        werr == IF worker /\ NumParts(rec.target) # 2
                THEN "invalid data specified for cloudflare worker record" ELSE ""
        r4 == IF worker THEN [r3 EXCEPT !.ttl = 1, !.type = "WORKER_ROUTE"] ELSE r3
    IN IF perr # "" THEN [rec |-> r1, err |-> perr, prio |-> currentPrPrio]
       ELSE IF rerr # "" THEN [rec |-> r2, err |-> rerr, prio |-> currentPrPrio]
       ELSE IF werr # "" THEN [rec |-> r3, err |-> werr, prio |-> currentPrPrio]
       ELSE [rec |-> r4, err |-> "",
             prio |-> IF redirect THEN currentPrPrio + 1 ELSE currentPrPrio]

\* the loop running from the first record to the last
RECURSIVE forwardLoop(_, _, _, _, _)
forwardLoop(cf, recs, j, defProxy, currentPrPrio) ==
    IF j > Len(recs) THEN [recs |-> recs, err |-> ""]
    ELSE LET r == preprocessRecord(cf, recs[j], defProxy, currentPrPrio)
             recs1 == [recs EXCEPT ![j] = r.rec]
         IN IF r.err # "" THEN [recs |-> recs1, err |-> r.err]
            ELSE forwardLoop(cf, recs1, j + 1, defProxy, r.prio)

preprocessLoopForward(cf, recs, i, defProxy, currentPrPrio) ==
    forwardLoop(cf, recs, 1, defProxy, currentPrPrio)

\* the loop runs from the last record to the first and returns at the first error
RECURSIVE preprocessLoop(_, _, _, _, _)
preprocessLoop(cf, recs, i, defProxy, currentPrPrio) ==
    IF i = 0 THEN [recs |-> recs, err |-> ""]
    ELSE LET r == preprocessRecord(cf, recs[i], defProxy, currentPrPrio)
             recs1 == [recs EXCEPT ![i] = r.rec]
         IN IF r.err # "" THEN [recs |-> recs1, err |-> r.err]
            ELSE preprocessLoop(cf, recs1, i - 1, defProxy, r.prio)

\* line 484: net.ParseIP(target) # nil
ParseIP(target) == target \in {"1.2.3.4", "9.9.9.9"}

\* lines 475-494: the A records whose proxy is "full" go through the handle's
\* ip_conversions; the handle has none, so a valid address stays as it is
ipConversionError(recs) ==
    IF \E i \in 1..Len(recs) :
            recs[i].type = "A" /\ recs[i].meta = "full" /\ ~ParseIP(recs[i].target)
    THEN "is not a valid ip address"
    ELSE ""

\* lines 473-496: the loop's error ends the run, else the ip conversions run
preprocessConverted(d, loop) ==
    [dc |-> [d EXCEPT !.Records = loop.recs],
     err |-> IF loop.err # "" THEN loop.err ELSE ipConversionError(loop.recs)]

\* preprocessConfig: the records it leaves in dc and the error it returns
preprocessConfig(cf, d) ==
    LET def == checkProxyVal(d.Metadata.proxy_default)
        defProxy == IF d.Metadata.proxy_default = "" THEN "off" ELSE def.v
        u == ToLower(d.Metadata.universalssl)
        loop == preprocessLoop(cf, d.Records, Len(d.Records), defProxy, 1)
    IN IF d.Metadata.proxy_default # "" /\ def.err # ""
       THEN [dc |-> d, err |-> def.err]
       ELSE IF d.Metadata.universalssl # "" /\ u # "on" /\ u # "off"
       THEN [dc |-> d, err |-> "bad metadata value for cloudflare_universalssl"]
       ELSE preprocessConverted(d, loop)

\* the same filter walking forward, its index moving on after a removal
RECURSIVE forwardFilter(_, _, _)
forwardFilter(recs, j, ignoredLabels) ==
    IF j > Len(recs) THEN recs
    ELSE forwardFilter(
            IF labelMatches(recs[j].label, ignoredLabels)
            THEN SubSeq(recs, 1, j - 1) \o SubSeq(recs, j + 1, Len(recs))
            ELSE recs,
            j + 1, ignoredLabels)

removeIgnoredForward(recs, i, ignoredLabels) == forwardFilter(recs, 1, ignoredLabels)

\* lines 169-176: from the last fetched record to the first, drop the ignored labels
RECURSIVE removeIgnored(_, _, _)
removeIgnored(recs, i, ignoredLabels) ==
    IF i = 0 THEN recs
    ELSE removeIgnored(
            IF labelMatches(recs[i].label, ignoredLabels)
            THEN SubSeq(recs, 1, i - 1) \o SubSeq(recs, i + 1, Len(recs))
            ELSE recs,
            i - 1, ignoredLabels)

\* lines 198-211 without the check against ignored_labels
desiredLoopUnchecked(recs, i, ignoredLabels) ==
    [recs |-> [k \in 1..Len(recs) |->
                [recs[k] EXCEPT !.type = IF recs[k].type = "ALIAS" THEN "CNAME" ELSE recs[k].type,
                                !.ttl = IF recs[k].meta # "off" THEN 1 ELSE recs[k].ttl]],
     err |-> ""]

\* lines 198-211 leaving the TTL of the proxied records as it is
RECURSIVE desiredLoopKeepingTTL(_, _, _)
desiredLoopKeepingTTL(recs, i, ignoredLabels) ==
    IF i > Len(recs) THEN [recs |-> recs, err |-> ""]
    ELSE LET rec == recs[i]
             r1 == [rec EXCEPT !.type = IF rec.type = "ALIAS" THEN "CNAME" ELSE rec.type]
             recs1 == [recs EXCEPT ![i] = r1]
         IN IF labelMatches(rec.label, ignoredLabels)
            THEN [recs |-> recs1, err |-> "FATAL: dnsconfig contains label that matches ignored_labels"]
            ELSE desiredLoopKeepingTTL(recs1, i + 1, ignoredLabels)

\* lines 198-211: ALIAS becomes CNAME, proxied records get TTL 1, and a desired
\* label in ignored_labels is fatal (log.Fatalf ends the run)
RECURSIVE desiredLoop(_, _, _)
desiredLoop(recs, i, ignoredLabels) ==
    IF i > Len(recs) THEN [recs |-> recs, err |-> ""]
    ELSE LET rec == recs[i]
             r1 == [rec EXCEPT !.type = IF rec.type = "ALIAS" THEN "CNAME" ELSE rec.type,
                               !.ttl = IF rec.meta # "off" THEN 1 ELSE rec.ttl]
             recs1 == [recs EXCEPT ![i] = r1]
         IN IF labelMatches(rec.label, ignoredLabels)
            THEN [recs |-> recs1, err |-> "FATAL: dnsconfig contains label that matches ignored_labels"]
            ELSE desiredLoop(recs1, i + 1, ignoredLabels)

\* checkNSModifications: NS records of the base domain leave the desired records
checkNSModifications(recs) ==
    SelectSeq(recs, LAMBDA rec : ~(rec.type = "NS" /\ rec.label = "@"))

Correction(kind, ex, de, state) ==
    [kind |-> kind, Existing |-> ex, Desired |-> de, state |-> state, lines |-> <<>>]

\* lines 237-259 with the DS deletions appended like the others
RECURSIVE sequenceDeletesAppending(_, _)
sequenceDeletesAppending(del, acc) ==
    IF del = <<>> THEN acc
    ELSE sequenceDeletesAppending(Tail(del),
            Append(acc, Correction("DEL", Head(del).Existing, NoRec, "")))

\* lines 237-259: deletions in differ order, each DS deletion put in front
RECURSIVE sequenceDeletes(_, _)
sequenceDeletes(del, acc) ==
    IF del = <<>> THEN acc
    ELSE LET ex == Head(del).Existing
             corr == Correction("DEL", ex, NoRec, "")
         IN sequenceDeletes(Tail(del),
                IF ex.type = "PAGE_RULE" THEN Append(acc, corr)
                ELSE IF ex.type = "WORKER_ROUTE" THEN Append(acc, corr)
                ELSE IF ex.type = "DS" THEN <<corr>> \o acc
                ELSE Append(acc, corr))

\* lines 260-282 with the NS creations appended like the others
RECURSIVE sequenceCreatesAppending(_, _)
sequenceCreatesAppending(create, acc) ==
    IF create = <<>> THEN acc
    ELSE sequenceCreatesAppending(Tail(create),
            Append(acc, Correction("CREATE", NoRec, Head(create).Desired, "")))

\* lines 260-282: creations in differ order, each NS creation put in front
RECURSIVE sequenceCreates(_, _)
sequenceCreates(create, acc) ==
    IF create = <<>> THEN acc
    ELSE LET des == Head(create).Desired
             corr == Correction("CREATE", NoRec, des, "")
         IN sequenceCreates(Tail(create),
                IF des.type = "PAGE_RULE" THEN Append(acc, corr)
                ELSE IF des.type = "WORKER_ROUTE" THEN Append(acc, corr)
                ELSE IF des.type = "NS" THEN <<corr>> \o acc
                ELSE Append(acc, corr))

\* lines 284-307: one correction per modification, in differ order
RECURSIVE sequenceModifies(_, _)
sequenceModifies(mod, acc) ==
    IF mod = <<>> THEN acc
    ELSE sequenceModifies(Tail(mod),
            Append(acc, Correction("MOD", Head(mod).Existing, Head(mod).Desired, "")))

\* lines 235-307: the record-level corrections of a changeset
sequenceChangeset(del, create, mod) ==
    sequenceModifies(mod, sequenceCreates(create, sequenceDeletes(del, <<>>)))

\* checkUniversalSSL; fetch is getUniversalSSL's outcome: "err", or the state
checkUniversalSSL(d, fetchOk, actual) ==
    LET expectedStr == d.Metadata.universalssl
        expected == IF expectedStr = "off" THEN FALSE ELSE TRUE
    IN IF expectedStr = "" THEN [changed |-> FALSE, newState |-> FALSE, err |-> "metadata not set"]
       ELSE IF fetchOk
            THEN [changed |-> actual # expected, newState |-> expected, err |-> ""]
            ELSE [changed |-> FALSE, newState |-> FALSE,
                  err |-> "error receiving universal ssl state"]

\* lines 309-321: the Universal SSL correction goes last
appendUniversalSSL(corrs, d, fetchOk, actual) ==
    LET chk == checkUniversalSSL(d, fetchOk, actual)
    IN IF chk.err = "" /\ chk.changed
       THEN Append(corrs, Correction("USSL", NoRec, NoRec,
                                     IF chk.newState THEN "enabled" ELSE "disabled"))
       ELSE corrs

NoChanges == [unchanged |-> <<>>, create |-> <<>>, del |-> <<>>, mod |-> <<>>, err |-> ""]

\* the error dc.Punycode() returns when a name cannot be converted
PunycodeError == "punycode: conversion failed"

Failed(d, recs, e) ==
    [dc |-> d, records |-> recs, cs |-> NoChanges, corrections |-> <<>>, err |-> e]

IsPseudo(r) == r.type \in {"PAGE_RULE", "WORKER_ROUTE"}

\* lines 160-195: the fetched records the differ compares
observedRecords(cf, live) ==
    removeIgnored(SelectSeq(live, LAMBDA r : ~IsPseudo(r)),
                  Len(SelectSeq(live, LAMBDA r : ~IsPseudo(r))), cf.ignoredLabels)
        \o (IF cf.manageRedirects
            THEN SelectSeq(live, LAMBDA r : r.type = "PAGE_RULE") ELSE <<>>)
        \o (IF cf.manageWorkers
            THEN SelectSeq(live, LAMBDA r : r.type = "WORKER_ROUTE") ELSE <<>>)

\* lines 235-323: the corrections of the differ's changeset
cloudflareSequenced(d, observed, changes, fetchOk, actual) ==
    IF changes.err # "" THEN Failed(d, observed, changes.err)
    ELSE [dc |-> d, records |-> observed, cs |-> changes,
          corrections |-> appendUniversalSSL(
              sequenceChangeset(changes.del, changes.create, changes.mod),
              d, fetchOk, actual),
          err |-> ""]

\* lines 213-233: checkNSModifications, then the differ
cloudflareDiffed(d, recs, observed, fetchOk, actual) ==
    cloudflareSequenced([d EXCEPT !.Records = recs], observed,
                        Diff(recs, observed, d.KeepUnknown, TRUE), fetchOk, actual)

\* lines 198-213: the loop over the desired records
cloudflareLooped(d, loop, observed, fetchOk, actual) ==
    IF loop.err # "" THEN Failed([d EXCEPT !.Records = loop.recs], <<>>, loop.err)
    ELSE cloudflareDiffed(d, checkNSModifications(loop.recs), observed, fetchOk, actual)

\* lines 155-158: preprocessConfig's error ends the run
cloudflarePreprocessed(cf, pre, live, fetchOk, actual) ==
    IF pre.err # "" THEN Failed(pre.dc, <<>>, pre.err)
    ELSE cloudflareLooped(pre.dc, desiredLoop(pre.dc.Records, 1, cf.ignoredLabels),
                          observedRecords(cf, live), fetchOk, actual)

\* cloudflareProvider.GetDomainCorrections on the zone's fetched state
cloudflareGetDomainCorrections(cf, d, live, punyOk, fetchOk, actual) ==
    IF ~punyOk THEN Failed(d, <<>>, PunycodeError)
    ELSE cloudflarePreprocessed(cf, preprocessConfig(cf, d), live, fetchOk, actual)

(***************************************************************************)
(* Exoscale.                                                               *)
(***************************************************************************)
\* lines 114-187: the fetched records that become existingRecords
exoscaleExisting(live) ==
    SelectSeq(live, LAMBDA r :
        /\ ~(r.type = "SOA" \/ r.type = "NS")
        /\ ~(r.type = "TXT" /\ r.target = "ALIAS for www"))

\* removeOtherNS: every NS record leaves the desired records
removeOtherNS(recs) == SelectSeq(recs, LAMBDA rec : rec.type # "NS")

\* the same loop putting each correction in front of the list
RECURSIVE sequenceInOrderPrepending(_, _)
sequenceInOrderPrepending(entries, acc) ==
    IF entries = <<>> THEN acc
    ELSE sequenceInOrderPrepending(Tail(entries),
            <<Correction(Head(entries).kind, Head(entries).Existing,
                         Head(entries).Desired, "")>> \o acc)

\* lines 206-229: one correction per entry of a changeset list, appended
RECURSIVE sequenceInOrder(_, _)
sequenceInOrder(entries, acc) ==
    IF entries = <<>> THEN acc
    ELSE sequenceInOrder(Tail(entries),
            Append(acc, Correction(Head(entries).kind, Head(entries).Existing,
                                   Head(entries).Desired, "")))

\* exoscaleProvider.GetDomainCorrections; what dc.Punycode() returns is
\* dropped (line 99), so punyOk decides nothing
exoscaleGetDomainCorrections(d, live, punyOk) ==
    LET existingRecords == exoscaleExisting(live)
        d1 == [d EXCEPT !.Records = removeOtherNS(d.Records)]
        changes == Diff(d1.Records, existingRecords, d1.KeepUnknown, FALSE)
    IN IF changes.err # "" THEN Failed(d1, existingRecords, changes.err)
       ELSE [dc |-> d1, records |-> existingRecords, cs |-> changes,
             corrections |-> sequenceInOrder(changes.mod,
                                sequenceInOrder(changes.create,
                                    sequenceInOrder(changes.del, <<>>))),
             err |-> ""]

(***************************************************************************)
(* hosting.de.                                                             *)
(***************************************************************************)
\* lines 117-124: TTL must be between 1m and 1y
clampTTL(recs) ==
    [i \in 1..Len(recs) |->
        [recs[i] EXCEPT !.ttl = IF recs[i].ttl < 60 THEN 60
                                ELSE IF recs[i].ttl > 31556926 THEN 31556926
                                ELSE recs[i].ttl]]

\* GetZoneRecords: everything but the SOA
hostingdeGetZoneRecords(live) == SelectSeq(live, LAMBDA r : r.type # "SOA")

\* lines 140-180 returning the correction whatever the changeset holds
hostingdeCorrectionsAlways(changes, keepUnknown) ==
    LET del == IF keepUnknown THEN <<>> ELSE changes.del
    IN [cs |-> [changes EXCEPT !.del = del],
        corrections |-> <<[Correction("BATCH", NoRec, NoRec, "") EXCEPT
                            !.lines = del \o (changes.create \o changes.mod)]>>]

\* lines 140-180 emptying the deletions whatever the purge flag says
hostingdeCorrectionsNeverPurging(changes, keepUnknown) ==
    LET msg == changes.create \o changes.mod
    IN [cs |-> [changes EXCEPT !.del = <<>>],
        corrections |->
            IF Len(changes.create) = 0 /\ Len(changes.mod) = 0
            THEN <<>>
            ELSE <<[Correction("BATCH", NoRec, NoRec, "") EXCEPT !.lines = msg]>>]

\* lines 140-180 with the message listing the creations before the deletions
hostingdeCorrectionsCreatesFirst(changes, keepUnknown) ==
    LET del == IF keepUnknown THEN <<>> ELSE changes.del
        msg == changes.create \o (del \o changes.mod)
    IN [cs |-> [changes EXCEPT !.del = del],
        corrections |->
            IF Len(changes.create) = 0 /\ Len(del) = 0 /\ Len(changes.mod) = 0
            THEN <<>>
            ELSE <<[Correction("BATCH", NoRec, NoRec, "") EXCEPT !.lines = msg]>>]

\* lines 140-180: NO_PURGE empties the deletions; no correction when nothing
\* is left, else one correction whose message lists del, create, mod
hostingdeCorrections(changes, keepUnknown) ==
    LET del == IF keepUnknown THEN <<>> ELSE changes.del
        msg == del \o (changes.create \o changes.mod)
    IN [cs |-> [changes EXCEPT !.del = del],
        corrections |->
            IF Len(changes.create) = 0 /\ Len(del) = 0 /\ Len(changes.mod) = 0
            THEN <<>>
            ELSE <<[Correction("BATCH", NoRec, NoRec, "") EXCEPT !.lines = msg]>>]

\* hostingdeProvider.GetDomainCorrections
hostingdeGetDomainCorrections(d, live, punyOk) ==
    LET d1 == [d EXCEPT !.Records = clampTTL(d.Records)]
        recs == hostingdeGetZoneRecords(live)
        changes == Diff(d1.Records, recs, d1.KeepUnknown, FALSE)
        out == hostingdeCorrections(changes, d1.KeepUnknown)
    IN IF ~punyOk THEN Failed(d, <<>>, PunycodeError)
       ELSE IF changes.err # "" THEN Failed(d1, recs, changes.err)
       ELSE [dc |-> d1, records |-> recs, cs |-> out.cs,
             corrections |-> out.corrections, err |-> ""]

(***************************************************************************)
(* The zones and configurations the model starts from.                     *)
(***************************************************************************)
CloudflareDesired ==
    { Rec("www", "A", "1.2.3.4", 300), Rec("www", "A", "1.2.3.4", 600),
      Rec("sub", "NS", "ns1.", 300), Rec("sub", "DS", "ds1", 300),
      Rec("@", "NS", "ns2.", 300), Rec("vpn", "A", "1.2.3.4", 300),
      Rec("@", "CF_REDIRECT", "a,b", 300), Rec("@", "CF_TEMP_REDIRECT", "c,d", 300) }

CloudflareZone ==
    { Native("www", "A", "1.2.3.4", 1), Native("sub", "NS", "ns1.", 1),
      Native("sub", "DS", "ds1", 1), Native("@", "NS", "ns2.", 1),
      Native("vpn", "CNAME", "gw.", 1), Native("vpn", "A", "9.9.9.9", 1),
      [Native("@", "PAGE_RULE", "a,b", 1) EXCEPT !.prio = 1, !.code = 301] }

ExoscaleDesired ==
    { Rec("www", "A", "1.2.3.4", 300), Rec("www", "A", "1.2.3.4", 600),
      Rec("mail", "A", "9.9.9.9", 300), Rec("@", "NS", "ns1.exoscale.ch.", 300),
      Rec("sub", "NS", "ns1.", 300) }

ExoscaleZone ==
    { Native("www", "A", "1.2.3.4", 300), Native("mail", "A", "9.9.9.9", 300),
      Native("@", "NS", "ns1.exoscale.ch.", 300), Native("@", "SOA", "soa", 300) }

HostingdeDesired ==
    { Rec("www", "A", "1.2.3.4", 300), Rec("www", "A", "1.2.3.4", 600),
      Rec("mail", "A", "9.9.9.9", 0), Rec("@", "NS", "ns1.", 300) }

HostingdeZone ==
    { Native("www", "A", "1.2.3.4", 300), Native("mail", "A", "9.9.9.9", 60),
      Native("@", "NS", "ns1.", 300), Native("@", "SOA", "soa", 300) }

\* the pairs (desired, observed) of at most MaxRecs records; a provider holds
\* no two records with one identity key, a configuration may declare two
Zones(desiredPool, zonePool) ==
    {p \in InjSeqs(desiredPool, MaxRecs) \X InjSeqs(zonePool, MaxRecs) :
        /\ Len(p[1]) + Len(p[2]) <= MaxRecs
        /\ ~HasDuplicateKey(p[2])}

Config(recs, keepUnknown, universalssl) ==
    [Records |-> recs, KeepUnknown |-> keepUnknown, Nameservers |-> <<>>,
     Metadata |-> [universalssl |-> universalssl, proxy_default |-> ""]]

NoHandle == [ignoredLabels |-> {}, manageRedirects |-> FALSE, manageWorkers |-> FALSE]

\* cloudflareProvider.domainIndex == nil; writer is the call that wrote the
\* index last (0: none of the calls in progress)
NilIndex == [populated |-> FALSE, names |-> {}, writer |-> 0]

\* no correction is being applied
NoApply ==
    /\ remote = [recs |-> {}, ussl |-> FALSE]
    /\ report = <<>>

\* no call is in progress on the handle, whose index is not yet populated
NoCalls ==
    /\ domainIndex = NilIndex
    /\ account = {}
    /\ calls = <<>>

\* no record is under normalization
NoNormalization ==
    /\ rc = [ttl |-> 0, txt |-> <<>>, octets |-> 0]
    /\ defaultTTL = 0

\* the egoscale record of a nil pointer
NoRecord == [Name |-> "", Type |-> "", Content |-> <<>>, TTL |-> -1, Priority |-> -1]

\* no correction has been called and no registrar has been asked
NoCorrectionCalls ==
    /\ attempt = 0
    /\ updates = <<>>
    /\ ret = "none"
    /\ fetched = NoRecord
    /\ record = NoRecord
    /\ registrar = <<>>

Idle ==
    /\ dc = authored
    /\ sslFetch = "none"
    /\ puny = "none"
    /\ NoApply
    /\ NoCalls
    /\ NoNormalization
    /\ NoCorrectionCalls
    /\ records = <<>>
    /\ cs = NoChanges
    /\ corrections = <<>>
    /\ err = ""
    /\ pc = "idle"

InitCloudflare ==
    /\ provider = "cloudflare"
    /\ c \in [ignoredLabels : {{}, {"vpn"}}, manageRedirects : BOOLEAN,
              manageWorkers : {FALSE}]
    /\ \E p \in Zones(CloudflareDesired, CloudflareZone) :
       \E k \in BOOLEAN, u \in {"", "on", "off", "OFF"} :
            /\ authored = Config(p[1], k, u)
            /\ zone = p[2]
    /\ ussl \in BOOLEAN
    /\ Idle

InitExoscale ==
    /\ provider = "exoscale"
    /\ c = NoHandle
    /\ \E p \in Zones(ExoscaleDesired, ExoscaleZone) : \E k \in BOOLEAN :
            /\ authored = Config(p[1], k, "")
            /\ zone = p[2]
    /\ ussl = FALSE
    /\ Idle

InitHostingde ==
    /\ provider = "hostingde"
    /\ c = NoHandle
    /\ \E p \in Zones(HostingdeDesired, HostingdeZone) : \E k \in BOOLEAN :
            /\ authored = Config(p[1], k, "")
            /\ zone = p[2]
    /\ ussl = FALSE
    /\ Idle

Init == InitCloudflare \/ InitExoscale \/ InitHostingde

Returns(out) ==
    /\ dc' = out.dc
    /\ records' = out.records
    /\ cs' = out.cs
    /\ corrections' = out.corrections
    /\ err' = out.err
    /\ pc' = "done"

CloudflareGetDomainCorrections ==
    /\ pc = "idle"
    /\ provider = "cloudflare"
    /\ \E punyOk \in BOOLEAN, fetchOk \in BOOLEAN :
        /\ puny' = IF punyOk THEN "ok" ELSE "err"
        /\ sslFetch' = IF dc.Metadata.universalssl = "" THEN "none"
                       ELSE IF fetchOk THEN "ok" ELSE "err"
        /\ Returns(cloudflareGetDomainCorrections(c, dc, zone, punyOk, fetchOk, ussl))
    /\ UNCHANGED <<provider, c, authored, zone, ussl>>
    /\ UNCHANGED <<applyVars, handleVars, normVars>>
    /\ UNCHANGED correctionVars

ExoscaleGetDomainCorrections ==
    /\ pc = "idle"
    /\ provider = "exoscale"
    /\ \E punyOk \in BOOLEAN :
        /\ puny' = IF punyOk THEN "ok" ELSE "err"
        /\ Returns(exoscaleGetDomainCorrections(dc, zone, punyOk))
    /\ UNCHANGED <<provider, c, authored, zone, ussl, sslFetch>>
    /\ UNCHANGED <<applyVars, handleVars, normVars>>
    /\ UNCHANGED correctionVars

HostingdeGetDomainCorrections ==
    /\ pc = "idle"
    /\ provider = "hostingde"
    /\ \E punyOk \in BOOLEAN :
        /\ puny' = IF punyOk THEN "ok" ELSE "err"
        /\ Returns(hostingdeGetDomainCorrections(dc, zone, punyOk))
    /\ UNCHANGED <<provider, c, authored, zone, ussl, sslFetch>>
    /\ UNCHANGED <<applyVars, handleVars, normVars>>
    /\ UNCHANGED correctionVars

Next ==
    \/ CloudflareGetDomainCorrections
    \/ ExoscaleGetDomainCorrections
    \/ HostingdeGetDomainCorrections

Spec == Init /\ [][Next]_vars

(***************************************************************************)
(* The sequencer alone, on any changeset a differ may return.              *)
(***************************************************************************)
SequencerDeletes ==
    {Correlation("DEL", e, NoRec) : e \in
        { Native("sub", "DS", "ds1", 1), Native("sub", "NS", "ns1.", 1),
          Native("www", "A", "1.2.3.4", 1),
          [Native("@", "PAGE_RULE", "a,b", 1) EXCEPT !.prio = 1, !.code = 301] }}

SequencerCreates ==
    {Correlation("CREATE", NoRec, d) : d \in
        { [Rec("sub", "DS", "ds1", 1) EXCEPT !.meta = "off"],
          [Rec("sub", "NS", "ns1.", 1) EXCEPT !.meta = "off"],
          [Rec("www", "A", "9.9.9.9", 1) EXCEPT !.meta = "off"],
          [Rec("@", "PAGE_RULE", "c,d", 1) EXCEPT !.meta = "off", !.prio = 1, !.code = 302] }}

SequencerModifies ==
    { Correlation("MOD", Native("mail", "A", "1.2.3.4", 1),
                  [Rec("mail", "A", "1.2.3.4", 600) EXCEPT !.meta = "off"]) }

InitSequencer ==
    /\ provider = "cloudflare"
    /\ c = NoHandle
    /\ authored = Config(<<>>, FALSE, "")
    /\ dc = authored
    /\ zone = <<>>
    /\ ussl = FALSE
    /\ sslFetch = "none"
    /\ puny = "ok"
    /\ NoApply
    /\ NoCalls
    /\ NoNormalization
    /\ NoCorrectionCalls
    /\ records = <<>>
    /\ \E del \in InjSeqs(SequencerDeletes, MaxChanges),
          create \in InjSeqs(SequencerCreates, MaxChanges),
          mod \in InjSeqs(SequencerModifies, MaxChanges) :
            cs = [unchanged |-> <<>>, create |-> create, del |-> del, mod |-> mod,
                  err |-> ""]
    /\ corrections = <<>>
    /\ err = ""
    /\ pc = "diffed"

\* lines 235-307 of cloudflareProvider.GetDomainCorrections
CloudflareSequence ==
    /\ pc = "diffed"
    /\ corrections' = sequenceChangeset(cs.del, cs.create, cs.mod)
    /\ pc' = "done"
    /\ UNCHANGED <<provider, c, authored, dc, zone, ussl, sslFetch, puny, records, cs, err>>
    /\ UNCHANGED <<applyVars, handleVars, normVars>>
    /\ UNCHANGED correctionVars

NextSequencer == CloudflareSequence

SpecSequencer == InitSequencer /\ [][NextSequencer]_vars

(***************************************************************************)
(* The caller's loop over the corrections of one zone: it executes each    *)
(* correction's action in the emitted order and collects what each returns *)
(* (sections 5, 6 and 7 of the specification).                             *)
(***************************************************************************)
\* the error a correction's action returns when the provider refuses it
ApplyError == "apply failed"

RECURSIVE applyLines(_, _)

\* what a correction's action does to the provider's zone when it succeeds
applyEffect(rem, corr) ==
    CASE corr.kind = "DEL" -> [rem EXCEPT !.recs = @ \ {corr.Existing}]
      [] corr.kind = "CREATE" -> [rem EXCEPT !.recs = @ \cup {corr.Desired}]
      [] corr.kind = "MOD" ->
            [rem EXCEPT !.recs = (@ \ {corr.Existing}) \cup {corr.Desired}]
      [] corr.kind = "USSL" -> [rem EXCEPT !.ussl = (corr.state = "enabled")]
      [] OTHER -> applyLines(rem, corr.lines)

\* hosting.de's one correction sends every entry of its changeset
applyLines(rem, lines) ==
    IF lines = <<>> THEN rem
    ELSE applyLines(applyEffect(rem, Head(lines)), Tail(lines))

\* the loop undoing what it had applied when an action fails
applyOutcomeRollingBack(rem, corr, ok) ==
    IF ok THEN applyEffect(rem, corr) ELSE [recs |-> Range(zone), ussl |-> ussl]

\* one action of the loop: the zone afterwards; a failed action leaves it
applyOutcome(rem, corr, ok) ==
    IF ok THEN applyEffect(rem, corr) ELSE rem

\* the zones whose corrections are applied
InitApply ==
    /\ \/ /\ provider = "cloudflare"
          /\ c = [ignoredLabels |-> {}, manageRedirects |-> TRUE, manageWorkers |-> FALSE]
          /\ \E p \in Zones(CloudflareDesired, CloudflareZone) :
             \E u \in {"", "on"} :
                  /\ authored = Config(p[1], FALSE, u)
                  /\ zone = p[2]
          /\ ussl = FALSE
       \/ /\ provider = "exoscale"
          /\ c = NoHandle
          /\ \E p \in Zones(ExoscaleDesired, ExoscaleZone) :
                  /\ authored = Config(p[1], FALSE, "")
                  /\ zone = p[2]
          /\ ussl = FALSE
       \/ /\ provider = "hostingde"
          /\ c = NoHandle
          /\ \E p \in Zones(HostingdeDesired, HostingdeZone) :
                  /\ authored = Config(p[1], FALSE, "")
                  /\ zone = p[2]
          /\ ussl = FALSE
    /\ dc = authored
    /\ sslFetch = "none"
    /\ puny = "none"
    /\ remote = [recs |-> Range(zone), ussl |-> ussl]
    /\ report = <<>>
    /\ NoCalls
    /\ NoNormalization
    /\ NoCorrectionCalls
    /\ records = <<>>
    /\ cs = NoChanges
    /\ corrections = <<>>
    /\ err = ""
    /\ pc = "idle"

\* the loop takes the next correction of the returned list and runs its action
ApplyCorrection ==
    /\ pc = "done"
    /\ err = ""
    /\ Len(report) < Len(corrections)
    /\ \E ok \in BOOLEAN :
        /\ remote' = applyOutcome(remote, corrections[Len(report) + 1], ok)
        /\ report' = Append(report, [corr |-> corrections[Len(report) + 1],
                                     err |-> IF ok THEN "" ELSE ApplyError])
    /\ UNCHANGED <<runVars, handleVars, normVars>>
    /\ UNCHANGED correctionVars

NextApply ==
    \/ CloudflareGetDomainCorrections
    \/ ExoscaleGetDomainCorrections
    \/ HostingdeGetDomainCorrections
    \/ ApplyCorrection

SpecApply == InitApply /\ [][NextApply]_vars

(***************************************************************************)
(* Two GetDomainCorrections calls for two zones on one Cloudflare handle,  *)
(* step by step through getDomainID.  Nothing in cloudflareProvider guards *)
(* domainIndex, so a call that reads it after the other call wrote it may  *)
(* see either value.                                                       *)
(***************************************************************************)
DomainNames == {"a.example", "b.example", "c.example"}

\* the two calls running on the handle at once
Calls == {1, 2}

Call(op, name, at) ==
    [op |-> op, name |-> name, pc |-> at, id |-> "", err |-> "",
     shared |-> FALSE, lookupFailed |-> FALSE, createFailed |-> FALSE]

\* the run of one zone is not in progress
NoRun ==
    /\ c = NoHandle
    /\ authored = Config(<<>>, FALSE, "")
    /\ dc = authored
    /\ zone = <<>>
    /\ ussl = FALSE
    /\ sslFetch = "none"
    /\ puny = "none"
    /\ records = <<>>
    /\ cs = NoChanges
    /\ corrections = <<>>
    /\ err = ""
    /\ pc = "idle"

InitConcurrent ==
    /\ provider = "cloudflare"
    /\ NoRun
    /\ NoApply
    /\ NoNormalization
    /\ NoCorrectionCalls
    /\ account \in SUBSET DomainNames
    /\ domainIndex \in {NilIndex, [populated |-> TRUE, names |-> account, writer |-> 0]}
    /\ calls \in {s \in [Calls -> {Call("GetDomainCorrections", n, "check") : n \in DomainNames}] :
                    \A p, q \in Calls : p # q => s[p].name # s[q].name}

\* the other call wrote the index last
WrittenByOther(p) == domainIndex.writer \notin {0, p}

\* line 138: if c.domainIndex == nil
CheckDomainIndex(p) ==
    /\ calls[p].pc = "check"
    /\ \E seen \in (IF WrittenByOther(p) THEN BOOLEAN ELSE {domainIndex.populated}) :
        calls' = [calls EXCEPT ![p].pc = IF seen THEN "lookup" ELSE "fetch",
                               ![p].shared = @ \/ WrittenByOther(p)]
    /\ UNCHANGED <<domainIndex, account>>
    /\ UNCHANGED <<runVars, applyVars, normVars>>
    /\ UNCHANGED correctionVars

\* lines 139-141: c.fetchDomainList() populates domainIndex and nameservers
FetchDomainList(p) ==
    /\ calls[p].pc = "fetch"
    /\ \E ok \in BOOLEAN :
        IF ok
        THEN /\ domainIndex' = [populated |-> TRUE, names |-> account, writer |-> p]
             /\ calls' = [calls EXCEPT ![p].pc = "lookup",
                                       ![p].shared = @ \/ WrittenByOther(p)]
        ELSE /\ domainIndex' = domainIndex
             /\ calls' = [calls EXCEPT ![p].pc = "done",
                                       ![p].err = "failed fetching domain list"]
    /\ UNCHANGED account
    /\ UNCHANGED <<runVars, applyVars, normVars>>
    /\ UNCHANGED correctionVars

\* lines 143-147: id, ok := c.domainIndex[name]
LookupDomainIndex(p) ==
    /\ calls[p].pc = "lookup"
    /\ calls' = [calls EXCEPT
            ![p].pc = IF calls[p].name \in domainIndex.names THEN "rest" ELSE "done",
            ![p].id = IF calls[p].name \in domainIndex.names THEN calls[p].name ELSE "",
            ![p].err = IF calls[p].name \in domainIndex.names THEN ""
                       ELSE "not a zone in cloudflare account",
            ![p].shared = @ \/ WrittenByOther(p)]
    /\ UNCHANGED <<domainIndex, account>>
    /\ UNCHANGED <<runVars, applyVars, normVars>>
    /\ UNCHANGED correctionVars

\* lines 161-328: the rest of the call works on its own dc and records
RestOfCall(p) ==
    /\ calls[p].pc = "rest"
    /\ calls' = [calls EXCEPT ![p].pc = "done"]
    /\ UNCHANGED <<domainIndex, account>>
    /\ UNCHANGED <<runVars, applyVars, normVars>>
    /\ UNCHANGED correctionVars

NextConcurrent ==
    \E p \in Calls :
        \/ CheckDomainIndex(p)
        \/ FetchDomainList(p)
        \/ LookupDomainIndex(p)
        \/ RestOfCall(p)

SpecConcurrent == InitConcurrent /\ [][NextConcurrent]_vars

(***************************************************************************)
(* EnsureDomainExists of the three adapters.                               *)
(***************************************************************************)
Ensured(e, idx, acct, lookupFailed, createFailed) ==
    [err |-> e, domainIndex |-> idx, account |-> acct,
     lookupFailed |-> lookupFailed, createFailed |-> createFailed]

\* cloudflareProvider.EnsureDomainExists, lines 729-736: the index is populated
cloudflareEnsureIndexed(idx, acct, name, createOk) ==
    IF name \in idx.names THEN Ensured("", idx, acct, FALSE, FALSE)
    ELSE IF createOk THEN Ensured("", idx, acct \cup {name}, FALSE, FALSE)
    ELSE Ensured("createZone failed", idx, acct, FALSE, TRUE)

\* cloudflareProvider.EnsureDomainExists
cloudflareEnsureDomainExists(idx, acct, name, fetchOk, createOk) ==
    IF idx.populated THEN cloudflareEnsureIndexed(idx, acct, name, createOk)
    ELSE IF ~fetchOk THEN Ensured("failed fetching domain list", idx, acct, TRUE, FALSE)
    ELSE cloudflareEnsureIndexed([populated |-> TRUE, names |-> acct, writer |-> 0],
                                 acct, name, createOk)

\* exoscaleProvider.EnsureDomainExists: what findDomainByName returns
exoscaleEnsureDomainExists(acct, name, listOk) ==
    IF ~listOk THEN Ensured("ListDNSDomains failed", NilIndex, acct, TRUE, FALSE)
    ELSE IF name \in acct THEN Ensured("", NilIndex, acct, FALSE, FALSE)
    ELSE Ensured("domain not found", NilIndex, acct, FALSE, FALSE)

\* hostingdeProvider.EnsureDomainExists: only errZoneNotFound is acted on
hostingdeEnsureDomainExists(acct, name, lookupOk, createOk) ==
    IF ~lookupOk THEN Ensured("", NilIndex, acct, TRUE, FALSE)
    ELSE IF name \in acct THEN Ensured("", NilIndex, acct, FALSE, FALSE)
    ELSE IF createOk THEN Ensured("", NilIndex, acct \cup {name}, FALSE, FALSE)
    ELSE Ensured("createZone failed", NilIndex, acct, FALSE, TRUE)

InitEnsure ==
    /\ provider \in {"cloudflare", "exoscale", "hostingde"}
    /\ NoRun
    /\ NoApply
    /\ NoNormalization
    /\ NoCorrectionCalls
    /\ account \in SUBSET DomainNames
    /\ domainIndex \in
            IF provider = "cloudflare"
            THEN {NilIndex, [populated |-> TRUE, names |-> account, writer |-> 0]}
            ELSE {NilIndex}
    /\ \E n \in DomainNames : calls = <<Call("EnsureDomainExists", n, "call")>>

EnsureReturns(out) ==
    /\ domainIndex' = out.domainIndex
    /\ account' = out.account
    /\ calls' = [calls EXCEPT ![1].pc = "done", ![1].err = out.err,
                              ![1].lookupFailed = out.lookupFailed,
                              ![1].createFailed = out.createFailed]
    /\ UNCHANGED <<runVars, applyVars, normVars>>
    /\ UNCHANGED correctionVars

CloudflareEnsureDomainExists ==
    /\ provider = "cloudflare"
    /\ calls[1].pc = "call"
    /\ \E fetchOk \in BOOLEAN, createOk \in BOOLEAN :
        EnsureReturns(cloudflareEnsureDomainExists(domainIndex, account, calls[1].name,
                                                   fetchOk, createOk))

ExoscaleEnsureDomainExists ==
    /\ provider = "exoscale"
    /\ calls[1].pc = "call"
    /\ \E listOk \in BOOLEAN :
        EnsureReturns(exoscaleEnsureDomainExists(account, calls[1].name, listOk))

HostingdeEnsureDomainExists ==
    /\ provider = "hostingde"
    /\ calls[1].pc = "call"
    /\ \E lookupOk \in BOOLEAN, createOk \in BOOLEAN :
        EnsureReturns(hostingdeEnsureDomainExists(account, calls[1].name,
                                                  lookupOk, createOk))

NextEnsure ==
    \/ CloudflareEnsureDomainExists
    \/ ExoscaleEnsureDomainExists
    \/ HostingdeEnsureDomainExists

SpecEnsure == InitEnsure /\ [][NextEnsure]_vars

(***************************************************************************)
(* The normalizer (section 4.1 of the specification) on one record: the    *)
(* TTL default and the chunking of TXT content.  A TXT string is the       *)
(* interval <<from, to>> of the octets of the declared content it holds.   *)
(***************************************************************************)
\* the DNSControl global default TTL, in seconds
GlobalDefaultTTL == 300

\* the longest string of a TXT record, in octets
TxtChunk == 255

\* a TTL the normalizer ignores the domain's DefaultTTL for
normalizeTTLIgnoringDefault(ttl, domainTTL) ==
    IF ttl # 0 THEN ttl ELSE GlobalDefaultTTL

\* TTL 0 becomes the domain's DefaultTTL, or the global default without one
normalizeTTL(ttl, domainTTL) ==
    IF ttl # 0 THEN ttl
    ELSE IF domainTTL # 0 THEN domainTTL
    ELSE GlobalDefaultTTL

\* chunks one octet too long
RECURSIVE chunksTooLong(_, _)
chunksTooLong(from, to) ==
    IF to - from <= TxtChunk + 1 THEN <<<<from, to>>>>
    ELSE <<<<from, from + TxtChunk + 1>>>> \o chunksTooLong(from + TxtChunk + 1, to)

\* one string cut into chunks of TxtChunk octets, the rest in the last
RECURSIVE chunks(_, _)
chunks(from, to) ==
    IF to - from <= TxtChunk THEN <<<<from, to>>>>
    ELSE <<<<from, from + TxtChunk>>>> \o chunks(from + TxtChunk, to)

\* every string of the record's content, chunked
RECURSIVE normalizeTxt(_)
normalizeTxt(txt) ==
    IF txt = <<>> THEN <<>>
    ELSE chunks(Head(txt)[1], Head(txt)[2]) \o normalizeTxt(Tail(txt))

NormalizerTTLs == {0, 1, 60, 300, 600}

DomainTTLs == {0, 1000, 14400}

\* the declared content: one string, or two strings cut at a few places
TxtContents ==
    {<<<<0, n>>>> : n \in 0..MaxTxtLen}
        \cup {<<<<0, k>>, <<k, n>>>> : k \in {1, 255, 300}, n \in 301..MaxTxtLen}

InitNormalizer ==
    /\ provider = "none"
    /\ c = NoHandle
    /\ \E t \in NormalizerTTLs, x \in TxtContents :
            rc = [ttl |-> t, txt |-> x, octets |-> x[Len(x)][2]]
    /\ defaultTTL \in DomainTTLs
    /\ authored = rc
    /\ dc = authored
    /\ zone = <<>>
    /\ ussl = FALSE
    /\ sslFetch = "none"
    /\ puny = "none"
    /\ records = <<>>
    /\ cs = NoChanges
    /\ corrections = <<>>
    /\ err = ""
    /\ pc = "idle"
    /\ NoApply
    /\ NoCalls
    /\ NoCorrectionCalls

\* the normalizer runs on the record; it may run again on its own result
Normalize ==
    /\ pc \in {"idle", "normalized"}
    /\ rc' = [rc EXCEPT !.ttl = normalizeTTL(rc.ttl, defaultTTL),
                        !.txt = normalizeTxt(rc.txt)]
    /\ pc' = "normalized"
    /\ UNCHANGED <<provider, c, authored, dc, zone, ussl, sslFetch, puny, records, cs,
                   corrections, err>>
    /\ UNCHANGED <<applyVars, handleVars, defaultTTL>>
    /\ UNCHANGED correctionVars

NextNormalizer == Normalize

SpecNormalizer == InitNormalizer /\ [][NextNormalizer]_vars

(***************************************************************************)
(* The action of hosting.de's one correction (lines 157-174): it calls     *)
(* updateRecords with the changeset the closure captured, and tries again  *)
(* while the provider answers that the zone is blocked.                    *)
(***************************************************************************)
\* line 158: for i := 0; i < 10; i++
MaxAttempts == 10

\* what updateRecords may answer ("" is nil)
UpdateOutcomes == {"", "Code:10205 zone is blocked", "Code:10001 internal error"}

\* line 164: strings.Contains(err.Error(), "Code:10205")
ContainsCode10205(e) == e \in {"Code:10205 zone is blocked"}

RetryExhaustion == "retry exhaustion: zone blocked for 10 attempts"

\* lines 159-171 trying again after every error
retryStepOnAnyError(i, e) ==
    IF e = "" THEN [ret |-> "nil", i |-> i]
    ELSE [ret |-> "running", i |-> i + 1]

\* lines 159-171: one pass of the loop body on updateRecords' answer
retryStep(i, e) ==
    IF e = "" THEN [ret |-> "nil", i |-> i]
    ELSE IF ~ContainsCode10205(e) THEN [ret |-> e, i |-> i]
    ELSE [ret |-> "running", i |-> i + 1]

\* the caller invokes the correction's F
CallCorrection ==
    /\ provider = "hostingde"
    /\ pc = "done"
    /\ err = ""
    /\ corrections # <<>>
    /\ ret = "none"
    /\ ret' = "running"
    /\ attempt' = 0
    /\ updates' = <<>>
    /\ UNCHANGED <<runVars, applyVars, handleVars, normVars, updateVars, registrar>>

\* lines 158-171: one pass of the loop, updateRecords answering e
UpdateRecordsAttempt ==
    /\ ret = "running"
    /\ attempt < MaxAttempts
    /\ \E e \in UpdateOutcomes :
        /\ updates' = Append(updates, [create |-> cs.create, del |-> cs.del,
                                       mod |-> cs.mod, err |-> e])
        /\ ret' = retryStep(attempt, e).ret
        /\ attempt' = retryStep(attempt, e).i
    /\ UNCHANGED <<runVars, applyVars, handleVars, normVars, updateVars, registrar>>

\* line 173: the loop ran out
RetryExhausted ==
    /\ ret = "running"
    /\ attempt >= MaxAttempts
    /\ ret' = RetryExhaustion
    /\ UNCHANGED <<attempt, updates>>
    /\ UNCHANGED <<runVars, applyVars, handleVars, normVars, updateVars, registrar>>

NextRetry ==
    \/ HostingdeGetDomainCorrections
    \/ CallCorrection
    \/ UpdateRecordsAttempt
    \/ RetryExhausted

SpecRetry == InitHostingde /\ [][NextRetry]_vars

\* once called, the correction runs on: updateRecords answers and the loop
\* takes its next pass
SpecRetryFair ==
    SpecRetry /\ WF_vars(UpdateRecordsAttempt) /\ WF_vars(RetryExhausted)

(***************************************************************************)
(* Cloudflare's preprocessConfig on configurations that use its record     *)
(* types, TTLs and cloudflare_proxy settings, alone and as the first step  *)
(* of GetDomainCorrections.                                                *)
(***************************************************************************)
\* desired records of one configuration handed to preprocessConfig
MaxDesired == 2

WithProxyValue(r, v) == [r EXCEPT !.meta = v]

PreprocessDesired ==
    { Rec("www", "A", "1.2.3.4", 0),
      WithProxyValue(Rec("www", "A", "1.2.3.4", 60), "ON"),
      WithProxyValue(Rec("www", "A", "9.9.9.9", 119), "off"),
      WithProxyValue(Rec("mail", "A", "9.9.9.9", 600), "FULL"),
      WithProxyValue(Rec("sub", "A", "gw.", 300), "full"),
      WithProxyValue(Rec("vpn", "CNAME", "gw.", 3600), "Off"),
      Rec("vpn", "ALIAS", "gw.", 1),
      Rec("mail", "MX", "gw.", 60),
      WithProxyValue(Rec("mail", "MX", "gw.", 300), "on"),
      WithProxyValue(Rec("www", "A", "1.2.3.4", 300), "bad"),
      Rec("@", "CF_REDIRECT", "a,b", 300),
      Rec("@", "CF_TEMP_REDIRECT", "c,d", 600),
      Rec("@", "CF_REDIRECT", "a,b,c", 300),
      Rec("@", "CF_WORKER_ROUTE", "a,b", 600) }

\* the zones Cloudflare holds: a proxied record has the automatic TTL
PreprocessZones ==
    { <<>>, <<[Native("www", "A", "1.2.3.4", 1) EXCEPT !.proxied = TRUE]>> }

InitPreprocess ==
    /\ provider = "cloudflare"
    /\ c \in [ignoredLabels : {{}}, manageRedirects : BOOLEAN, manageWorkers : {FALSE}]
    /\ \E recs \in InjSeqs(PreprocessDesired, MaxDesired) :
       \E def \in {"", "FULL", "bad"} :
            authored = [Config(recs, FALSE, "") EXCEPT !.Metadata.proxy_default = def]
    /\ zone \in PreprocessZones
    /\ ussl = FALSE
    /\ Idle

PreprocessReturns(pre) ==
    /\ dc' = pre.dc
    /\ err' = pre.err

\* preprocessConfig on the configuration, and once more on what it left
PreprocessConfig ==
    /\ provider = "cloudflare"
    /\ \/ pc = "idle" /\ pc' = "once"
       \/ pc = "once" /\ err = "" /\ pc' = "twice"
    /\ PreprocessReturns(preprocessConfig(c, dc))
    /\ UNCHANGED <<provider, c, authored, zone, ussl, sslFetch, puny, records, cs,
                   corrections>>
    /\ UNCHANGED <<applyVars, handleVars, normVars>>
    /\ UNCHANGED correctionVars

NextPreprocess ==
    \/ PreprocessConfig
    \/ CloudflareGetDomainCorrections

SpecPreprocess == InitPreprocess /\ [][NextPreprocess]_vars

(***************************************************************************)
(* Exoscale's createRecordFunc and updateRecordFunc: the egoscale record   *)
(* the correction sends.  A target is the sequence of its space-separated  *)
(* parts; a nil TTL or Priority pointer is -1.                             *)
(***************************************************************************)
Itoa(n) == CASE n = 0 -> "0" [] n = 10 -> "10" [] n = 20 -> "20"

\* strconv.ParseInt(s, 10, 64)
ParseInt(s) == CASE s = "0" -> 0 [] s = "10" -> 10 [] s = "20" -> 20

\* a desired record as the update sees it
RecordConfig(label, type, target, ttl, pref) ==
    [label |-> label, type |-> type, target |-> target, ttl |-> ttl,
     MxPreference |-> IF type = "MX" THEN pref ELSE 0,
     SrvPriority |-> IF type = "SRV" THEN pref ELSE 0]

\* rc.GetTargetCombined(): MX and SRV records put their numbers in front
GetTargetCombined(r) ==
    CASE r.type = "MX" -> <<Itoa(r.MxPreference), r.target>>
      [] r.type = "SRV" -> <<Itoa(r.SrvPriority), "5", "443", r.target>>
      [] OTHER -> <<r.target>>

\* lines 298-319: the content sent
exoscaleContent(r) ==
    IF r.type = "MX" THEN <<r.target>>
    ELSE IF r.type = "SRV" THEN Tail(GetTargetCombined(r))
    ELSE GetTargetCombined(r)

\* lines 261-263 and 321-323: the apex NS record is named "*"
exoscaleName(r) ==
    IF r.type = "NS" /\ (r.label = "@" \/ r.label = "") THEN "*" ELSE r.label

\* lines 236-275: the record createRecordFunc builds
createRecord(r) ==
    [Name |-> exoscaleName(r), Type |-> r.type, Content |-> exoscaleContent(r),
     TTL |-> IF r.ttl # 0 THEN r.ttl ELSE -1,
     Priority |-> IF r.type = "MX"
                  THEN (IF r.MxPreference # 0 THEN r.MxPreference ELSE -1)
                  ELSE IF r.type = "SRV" THEN ParseInt(Head(GetTargetCombined(r)))
                  ELSE -1]

\* lines 297-331: the fields updateRecordFunc sets on the fetched record
updateRecord(old, r) ==
    [Name |-> exoscaleName(r), Type |-> r.type, Content |-> exoscaleContent(r),
     TTL |-> IF r.ttl # 0 THEN r.ttl ELSE old.TTL,
     Priority |-> IF r.type = "MX"
                  THEN (IF r.MxPreference # 0 THEN r.MxPreference ELSE old.Priority)
                  ELSE IF r.type = "SRV" THEN ParseInt(Head(GetTargetCombined(r)))
                  ELSE old.Priority]

\* the desired records of the modifications
UpdateDesired ==
    {RecordConfig(l, "A", t, ttl, 0) :
        l \in {"www"}, t \in {"1.2.3.4", "9.9.9.9"}, ttl \in {0, 300, 600}}
    \cup {RecordConfig(l, "MX", "gw.", ttl, p) :
        l \in {"@", "mail"}, ttl \in {0, 300, 600}, p \in {0, 10, 20}}
    \cup {RecordConfig("sub", "SRV", "gw.", ttl, p) :
        ttl \in {0, 300, 600}, p \in {0, 10}}
    \cup {RecordConfig("sub", "NS", "ns1.", ttl, 0) : ttl \in {300, 600}}

\* the records Exoscale holds under the label and type of r
UpdateFetched(r) ==
    {[Name |-> r.label, Type |-> r.type, Content |-> content, TTL |-> ttl,
      Priority |-> p] :
        content \in IF r.type = "A" THEN {<<"1.2.3.4">>, <<"9.9.9.9">>}
                    ELSE IF r.type = "SRV" THEN {<<"5", "443", "gw.">>}
                    ELSE IF r.type = "NS" THEN {<<"ns1.">>, <<"ns2.">>}
                    ELSE {<<"gw.">>},
        ttl \in {300, 3600},
        p \in IF r.type \in {"MX", "SRV"} THEN {10, 20} ELSE {-1}}

InitUpdate ==
    /\ provider = "exoscale"
    /\ c = NoHandle
    /\ authored = Config(<<>>, FALSE, "")
    /\ dc = authored
    /\ zone = <<>>
    /\ ussl = FALSE
    /\ sslFetch = "none"
    /\ puny = "none"
    /\ records = <<>>
    /\ cs = NoChanges
    /\ corrections = <<>>
    /\ err = ""
    /\ pc = "idle"
    /\ NoApply
    /\ NoCalls
    /\ defaultTTL = 0
    /\ attempt = 0
    /\ updates = <<>>
    /\ ret = "none"
    /\ registrar = <<>>
    /\ rc \in UpdateDesired
    /\ fetched \in UpdateFetched(rc) \cup {NoRecord}
    /\ record = fetched

\* the action of a creation: CreateDNSDomainRecord gets the record built
ExoscaleCreateRecord ==
    /\ pc = "idle"
    /\ fetched = NoRecord
    /\ record' = createRecord(rc)
    /\ pc' = "created"
    /\ UNCHANGED <<provider, c, authored, dc, zone, ussl, sslFetch, puny, records, cs,
                   corrections, err>>
    /\ UNCHANGED <<applyVars, handleVars, normVars, retryVars, fetched, registrar>>

\* the action of a modification: UpdateDNSDomainRecord gets the fetched
\* record with its fields set from the desired record
ExoscaleUpdateRecord ==
    /\ pc = "idle"
    /\ fetched # NoRecord
    /\ record' = updateRecord(record, rc)
    /\ pc' = "updated"
    /\ UNCHANGED <<provider, c, authored, dc, zone, ussl, sslFetch, puny, records, cs,
                   corrections, err>>
    /\ UNCHANGED <<applyVars, handleVars, normVars, retryVars, fetched, registrar>>

NextUpdate ==
    \/ ExoscaleCreateRecord
    \/ ExoscaleUpdateRecord

SpecUpdate == InitUpdate /\ [][NextUpdate]_vars

(***************************************************************************)
(* hosting.de's GetRegistrarCorrections.  A nameserver name is the         *)
(* sequence of its characters, a character its rank in byte order: 0 is    *)
(* the comma, which no host name holds, 1 and 2 are letters.               *)
(***************************************************************************)
\* nameservers of one list
MaxNS == 2

Comma == <<0>>

NameserverNames == {<<1>>, <<2>>, <<1, 1>>, <<1, 2>>}

RECURSIVE SeqsUpTo(_, _)
SeqsUpTo(S, n) ==
    IF n = 0 THEN {<<>>}
    ELSE {<<>>} \cup {<<x>> \o s : x \in S, s \in SeqsUpTo(S, n - 1)}

\* x < y as Go compares strings
RECURSIVE StringLess(_, _)
StringLess(x, y) ==
    IF y = <<>> THEN FALSE
    ELSE IF x = <<>> THEN TRUE
    ELSE IF Head(x) # Head(y) THEN Head(x) < Head(y)
    ELSE StringLess(Tail(x), Tail(y))

RECURSIVE InsertSorted(_, _)
InsertSorted(x, s) ==
    IF s = <<>> THEN <<x>>
    ELSE IF StringLess(Head(s), x) THEN <<Head(s)>> \o InsertSorted(x, Tail(s))
    ELSE <<x>> \o s

\* sort.Strings leaving the list as it came
sortStringsKeepingOrder(s) == s

\* sort.Strings
RECURSIVE sortStrings(_)
sortStrings(s) ==
    IF s = <<>> THEN <<>> ELSE InsertSorted(Head(s), sortStrings(Tail(s)))

\* strings.Join(s, ",")
RECURSIVE Join(_)
Join(s) ==
    IF s = <<>> THEN <<>>
    ELSE IF Len(s) = 1 THEN s[1]
    ELSE s[1] \o Comma \o Join(Tail(s))

\* lines 199-202: the names of dc.Nameservers
expectedNames(d) == [i \in 1..Len(d.Nameservers) |-> d.Nameservers[i].Name]

\* lines 196-215 on the two sorted lists
registrarCompared(found, expected) ==
    [corrections |->
        IF Join(found) # Join(expected)
        THEN <<[Correction("Update nameservers", NoRec, NoRec, "") EXCEPT
                    !.lines = expected]>>
        ELSE <<>>,
     err |-> ""]

\* hostingdeProvider.GetRegistrarCorrections
hostingdeGetRegistrarCorrections(d, found, punyOk, foundOk) ==
    IF ~punyOk THEN [corrections |-> <<>>, err |-> PunycodeError]
    ELSE IF ~foundOk THEN [corrections |-> <<>>, err |-> "error getting nameservers"]
    ELSE registrarCompared(sortStrings(found), sortStrings(expectedNames(d)))

InitRegistrar ==
    /\ provider = "hostingde"
    /\ c = NoHandle
    /\ \E ns \in SeqsUpTo(NameserverNames, MaxNS) :
        authored = [Config(<<>>, FALSE, "") EXCEPT
                        !.Nameservers = [i \in 1..Len(ns) |-> [Name |-> ns[i]]]]
    /\ registrar \in SeqsUpTo(NameserverNames, MaxNS)
    /\ dc = authored
    /\ zone = <<>>
    /\ ussl = FALSE
    /\ sslFetch = "none"
    /\ puny = "none"
    /\ records = <<>>
    /\ cs = NoChanges
    /\ corrections = <<>>
    /\ err = ""
    /\ pc = "idle"
    /\ NoApply
    /\ NoCalls
    /\ NoNormalization
    /\ attempt = 0
    /\ updates = <<>>
    /\ ret = "none"
    /\ fetched = NoRecord
    /\ record = NoRecord

RegistrarReturns(out) ==
    /\ corrections' = out.corrections
    /\ err' = out.err

HostingdeGetRegistrarCorrections ==
    /\ pc = "idle"
    /\ provider = "hostingde"
    /\ \E punyOk \in BOOLEAN, foundOk \in BOOLEAN :
        /\ puny' = IF punyOk THEN "ok" ELSE "err"
        /\ RegistrarReturns(hostingdeGetRegistrarCorrections(dc, registrar, punyOk, foundOk))
    /\ pc' = "registrar"
    /\ UNCHANGED <<provider, c, authored, dc, zone, ussl, sslFetch, records, cs>>
    /\ UNCHANGED <<applyVars, handleVars, normVars, retryVars, updateVars, registrar>>

NextRegistrar == HostingdeGetRegistrarCorrections

SpecRegistrar == InitRegistrar /\ [][NextRegistrar]_vars

(***************************************************************************)
(* Properties.                                                             *)
(***************************************************************************)
IsDelete(corr, type) == corr.kind = "DEL" /\ corr.Existing.type = type
IsCreate(corr, type) == corr.kind = "CREATE" /\ corr.Desired.type = type

\* C1: in Cloudflare's correction list every deletion of a DS record comes
\* before every deletion of an NS record at the same label, whatever order
\* the differ returned the deletions in.
C1_DSDeletedBeforeNS ==
    \A i, j \in 1..Len(corrections) :
        (/\ IsDelete(corrections[i], "DS")
         /\ IsDelete(corrections[j], "NS")
         /\ corrections[i].Existing.label = corrections[j].Existing.label)
        => i < j

\* the differ returned the NS deletion first, and both were sequenced
C1_Witness ==
    /\ pc = "done"
    /\ Len(cs.del) = 2
    /\ cs.del[1].Existing.type = "NS"
    /\ cs.del[2].Existing.type = "DS"
    /\ cs.del[1].Existing.label = cs.del[2].Existing.label
    /\ \E i, j \in 1..Len(corrections) :
        IsDelete(corrections[i], "DS") /\ IsDelete(corrections[j], "NS")

\* C2: in Cloudflare's correction list every creation of an NS record comes
\* before every creation of a DS record at the same label, whatever order
\* the differ returned the creations in.
C2_NSCreatedBeforeDS ==
    \A i, j \in 1..Len(corrections) :
        (/\ IsCreate(corrections[i], "NS")
         /\ IsCreate(corrections[j], "DS")
         /\ corrections[i].Desired.label = corrections[j].Desired.label)
        => i < j

\* the differ returned the DS creation first, and both were sequenced
C2_Witness ==
    /\ pc = "done"
    /\ Len(cs.create) = 2
    /\ cs.create[1].Desired.type = "DS"
    /\ cs.create[2].Desired.type = "NS"
    /\ cs.create[1].Desired.label = cs.create[2].Desired.label
    /\ \E i, j \in 1..Len(corrections) :
        IsCreate(corrections[i], "NS") /\ IsCreate(corrections[j], "DS")

\* the record-level entries a correction list carries: hosting.de's one
\* correction lists them in its message, the others hold one each
Entries ==
    IF provider = "hostingde"
    THEN (IF corrections = <<>> THEN <<>> ELSE corrections[1].lines)
    ELSE SelectSeq(corrections, LAMBDA corr : corr.kind # "USSL")

WithProxy == provider = "cloudflare"

\* observed records whose identity key no desired record has
Unmanaged == {e \in Range(records) : \A d \in Range(dc.Records) : Key(d) # Key(e)}

\* every desired record has an observed record equal in key and content
DesiredAllPresent ==
    \A d \in Range(dc.Records) : \E e \in Range(records) :
        Key(d) = Key(e) /\ Content(d, WithProxy) = Content(e, WithProxy)

FetchedDNS == {r \in Range(zone) : ~IsPseudo(r)}

\* C4: Cloudflare drops every fetched record whose label is in ignored_labels
\* (adjacent ones too) before diffing, so none is deleted or modified, and it
\* keeps every fetched record whose label is not ignored.
C4_IgnoredLabelsUntouched ==
    (pc = "done" /\ provider = "cloudflare") =>
        /\ \A r \in FetchedDNS : labelMatches(r.label, c.ignoredLabels) =>
            /\ r \notin Range(records)
            /\ \A i \in 1..Len(corrections) :
                 corrections[i].kind \in {"DEL", "MOD"} => corrections[i].Existing # r
        /\ err = "" =>
            \A r \in FetchedDNS :
                ~labelMatches(r.label, c.ignoredLabels) => r \in Range(records)

\* two adjacent fetched records at an ignored label, purge on, nothing desired there
C4_Witness ==
    /\ pc = "done"
    /\ provider = "cloudflare"
    /\ err = ""
    /\ ~dc.KeepUnknown
    /\ Len(zone) = 2
    /\ labelMatches(zone[1].label, c.ignoredLabels)
    /\ labelMatches(zone[2].label, c.ignoredLabels)
    /\ records = <<>>
    /\ corrections = <<>>

\* C5: a desired record at a label in ignored_labels makes Cloudflare's
\* GetDomainCorrections fail before diffing: no changeset, no correction.
C5_IgnoredDesiredLabelFails ==
    (/\ pc = "done"
     /\ provider = "cloudflare"
     /\ \E d \in Range(authored.Records) : labelMatches(d.label, c.ignoredLabels))
    => (err # "" /\ corrections = <<>> /\ cs = NoChanges)

\* the run died on the label check itself
C5_Witness ==
    /\ pc = "done"
    /\ provider = "cloudflare"
    /\ \E d \in Range(authored.Records) : labelMatches(d.label, c.ignoredLabels)
    /\ err = "FATAL: dnsconfig contains label that matches ignored_labels"

\* desired and observed hold the same records: same keys, same content
SameRecords ==
    /\ DesiredAllPresent
    /\ Unmanaged = {}

\* C6: Diff(X, X) is empty, and an adapter whose desired and observed records
\* are equal emits no record-level correction (hosting.de none at all).
C6_DiffIdempotent ==
    (pc = "done" /\ err = "") =>
        /\ LET x == Diff(records, records, FALSE, WithProxy)
           IN x.create = <<>> /\ x.del = <<>> /\ x.mod = <<>>
        /\ SameRecords =>
            /\ cs.create = <<>> /\ cs.del = <<>> /\ cs.mod = <<>>
            /\ Entries = <<>>
            /\ provider = "hostingde" => corrections = <<>>

\* hosting.de diffed a non-empty zone against itself
C6_Witness ==
    /\ pc = "done"
    /\ err = ""
    /\ provider = "hostingde"
    /\ records # <<>>
    /\ SameRecords
    /\ corrections = <<>>

\* one call of the zone's adapter, as the action makes it
Run(d, live) ==
    CASE provider = "cloudflare" ->
            cloudflareGetDomainCorrections(c, d, live, puny = "ok", sslFetch = "ok", ussl)
      [] provider = "exoscale" -> exoscaleGetDomainCorrections(d, live, puny = "ok")
      [] OTHER -> hostingdeGetDomainCorrections(d, live, puny = "ok")

IsRedirect(r) == r.type \in {"CF_REDIRECT", "CF_TEMP_REDIRECT"}

\* C7 as claimed: a run on the same desired and observed records listed in
\* any other order gives the same changeset and the same corrections in the
\* same order.
C7_AnyOrderSameResult ==
    pc = "done" =>
        \A pd \in PermsOf(authored.Records), pe \in PermsOf(zone) :
            LET out == Run([authored EXCEPT !.Records = pd], pe)
            IN out.cs = cs /\ out.corrections = corrections

\* C7 amended: the same, for every reordering that keeps the redirect records
\* (CF_REDIRECT, CF_TEMP_REDIRECT) in their relative order.
C7_SameResultKeepingRedirectOrder ==
    pc = "done" =>
        \A pd \in PermsOf(authored.Records), pe \in PermsOf(zone) :
            SelectSeq(pd, IsRedirect) = SelectSeq(authored.Records, IsRedirect) =>
                LET out == Run([authored EXCEPT !.Records = pd], pe)
                IN out.cs = cs /\ out.corrections = corrections

\* a run with two corrections whose inputs can be listed in another order
C7_Witness ==
    /\ pc = "done"
    /\ err = ""
    /\ Len(zone) = 2
    /\ Len(corrections) = 2
    /\ zone[1].label # zone[2].label

\* C8: a desired and an observed record with the same identity key that
\* differ only in TTL give exactly one modify entry, carrying both, and no
\* create or delete entry.
C8_TTLOnlyIsOneModify ==
    (pc = "done" /\ err = "") =>
        \A d \in Range(dc.Records), e \in Range(records) :
            (/\ Key(d) = Key(e)
             /\ d.ttl # e.ttl
             /\ getProxyMetadata(d) = getProxyMetadata(e))
            => /\ Cardinality({i \in 1..Len(cs.mod) :
                        Key(cs.mod[i].Desired) = Key(d)}) = 1
               /\ \E i \in 1..Len(cs.mod) :
                        cs.mod[i].Existing = e /\ cs.mod[i].Desired = d
               /\ \A i \in 1..Len(cs.create) : Key(cs.create[i].Desired) # Key(d)
               /\ \A i \in 1..Len(cs.del) : Key(cs.del[i].Existing) # Key(e)

\* the only difference of the zone is one record's TTL
C8_Witness ==
    /\ pc = "done"
    /\ err = ""
    /\ Len(dc.Records) = 1
    /\ Len(records) = 1
    /\ Key(dc.Records[1]) = Key(records[1])
    /\ dc.Records[1].ttl # records[1].ttl
    /\ Len(cs.mod) = 1
    /\ cs.create = <<>>
    /\ cs.del = <<>>

HasUniversalSSL == \E i \in 1..Len(corrections) : corrections[i].kind = "USSL"

\* the state the zone declares: the flag as preprocessConfig validated it
DeclaredUniversalSSL == ToLower(authored.Metadata.universalssl)

\* C9: the Universal SSL correction is the last one when emitted, and it is
\* emitted exactly when the zone declares the flag, the current state was
\* fetched without error and differs from the declared state.
C9_UniversalSSLGuarded ==
    (pc = "done" /\ provider = "cloudflare" /\ err = "") =>
        /\ HasUniversalSSL <=>
            /\ DeclaredUniversalSSL # ""
            /\ sslFetch = "ok"
            /\ ussl # (DeclaredUniversalSSL = "on")
        /\ HasUniversalSSL =>
            /\ corrections[Len(corrections)].kind = "USSL"
            /\ Cardinality({i \in 1..Len(corrections) : corrections[i].kind = "USSL"}) = 1

C11_ConfigUnchanged ==
    pc = "done" => dc = authored

\* the desired records fail validation in Cloudflare's preprocessConfig
PreprocessFails == provider = "cloudflare" /\ preprocessConfig(c, authored).err # ""

\* the differ is handed two records with one identity key
DifferFails == HasDuplicateKey(dc.Records) \/ HasDuplicateKey(records)

\* C14: when dc.Punycode() fails, the desired records fail validation or the
\* differ returns an error, GetDomainCorrections returns an error and no
\* correction, in each of the three adapters.
C14_InvalidZoneReturnsError ==
    (pc = "done" /\ (puny = "err" \/ PreprocessFails \/ DifferFails))
        => (err # "" /\ corrections = <<>>)

\* the positions of a changeset list whose entry carries record r on one side
Carrying(list, r, side) ==
    {i \in 1..Len(list) : IF side = "Desired" THEN list[i].Desired = r
                          ELSE list[i].Existing = r}

ShapeGroup(corr) ==
    CASE corr.kind = "CREATE" /\ corr.Desired.type = "NS" -> 1
      [] corr.kind = "DEL" /\ corr.Existing.type = "DS" -> 2
      [] corr.kind = "DEL" -> 3
      [] corr.kind = "CREATE" -> 4
      [] corr.kind = "MOD" -> 5
      [] OTHER -> 6

MadeFrom(corr, e) ==
    corr.kind = e.kind /\ corr.Existing = e.Existing /\ corr.Desired = e.Desired

RECURSIVE Replayed(_)
Replayed(n) ==
    IF n = 0 THEN [recs |-> Range(zone), ussl |-> ussl]
    ELSE IF report[n].err = "" THEN applyEffect(Replayed(n - 1), report[n].corr)
    ELSE Replayed(n - 1)

\* C12: the corrections of a zone are applied in the emitted order; when the
\* action of the i-th fails, what corrections 1..i-1 did stays applied and
\* the failure is reported for the i-th correction itself.
C12_AppliedInOrderWithoutRollback ==
    /\ Len(report) <= Len(corrections)
    /\ \A i \in 1..Len(report) : report[i].corr = corrections[i]
    /\ remote = Replayed(Len(report))
    /\ \A i \in 1..Len(report) :
        report[i].err # "" =>
            \A j \in 1..(i - 1) :
                (/\ report[j].err = ""
                 /\ report[j].corr.kind = "CREATE"
                 /\ \A k \in (j + 1)..Len(report) : report[k].corr.kind = "USSL")
                => report[j].corr.Desired \in remote.recs

\* the second action failed after the first had changed the zone
C12_Witness ==
    /\ Len(report) = 2
    /\ report[1].err = ""
    /\ report[2].err # ""
    /\ remote # [recs |-> Range(zone), ussl |-> ussl]

\* C13: of two GetDomainCorrections calls for two zones on one handle, under
\* every interleaving, neither reads or writes state the other has written
\* (domainIndex and nameservers included).
C13_CallsShareNoMutableState ==
    \A p \in DOMAIN calls : ~calls[p].shared

\* C18: EnsureDomainExists returns nil only when the domain exists at the
\* provider at return, and returns the error when looking the domain up or
\* creating it failed.
C18_EnsureDomainExistsReports ==
    \A p \in DOMAIN calls :
        (calls[p].op = "EnsureDomainExists" /\ calls[p].pc = "done") =>
            /\ calls[p].err = "" => calls[p].name \in account
            /\ (calls[p].lookupFailed \/ calls[p].createFailed) => calls[p].err # ""

\* the strings, put end to end, are the n octets of the declared content
Concatenates(txt, n) ==
    /\ txt # <<>>
    /\ txt[1][1] = 0
    /\ txt[Len(txt)][2] = n
    /\ \A i \in 1..(Len(txt) - 1) : txt[i][2] = txt[i + 1][1]

C17_EffectiveTTL ==
    pc = "normalized" =>
        /\ authored.ttl # 0 => rc.ttl = authored.ttl
        /\ (authored.ttl = 0 /\ defaultTTL # 0) => rc.ttl = defaultTTL
        /\ (authored.ttl = 0 /\ defaultTTL = 0) => rc.ttl = 300
        /\ rc.ttl # 0

\* a record without a TTL in a domain with a DefaultTTL
C17_Witness ==
    /\ pc = "normalized"
    /\ authored.ttl = 0
    /\ defaultTTL = 1000
    /\ rc.ttl = 1000

\* the updateRecords calls that answered "zone blocked"
Blocked == {k \in 1..Len(updates) : ContainsCode10205(updates[k].err)}

\* C21: the action of hosting.de's correction always terminates and calls
\* updateRecords at most 10 times, each time with the changeset of the
\* correction: it returns nil at the first successful call, returns any error
\* that is not "Code:10205" at once, tries again only on "Code:10205" and
\* returns the retry exhaustion error after 10 blocked attempts in a row.
C21_RetryTerminates ==
    /\ [](/\ Len(updates) <= MaxAttempts
          /\ \A k \in 1..Len(updates) :
                /\ updates[k].create = cs.create
                /\ updates[k].del = cs.del
                /\ updates[k].mod = cs.mod
                /\ k < Len(updates) => ContainsCode10205(updates[k].err)
          /\ ret = "running" => Blocked = 1..Len(updates)
          /\ ret = "nil" => updates # <<>> /\ updates[Len(updates)].err = ""
          /\ ret = RetryExhaustion => Blocked = 1..MaxAttempts
          /\ (ret \notin {"none", "running", "nil", RetryExhaustion}) =>
                /\ updates # <<>>
                /\ ret = updates[Len(updates)].err
                /\ ~ContainsCode10205(ret))
    /\ (ret = "running") ~> (ret \notin {"none", "running"})

\* the zone stayed blocked for every attempt and the correction gave up
C21_Witness ==
    /\ ret = RetryExhaustion
    /\ Len(updates) = MaxAttempts
    /\ cs.create # <<>>

\* the changeset of the zone with every unmanaged record in the delete list
FullDiff == Diff(dc.Records, records, FALSE, FALSE)

\* the delete list NO_PURGE leaves
PurgedDel == IF dc.KeepUnknown THEN <<>> ELSE FullDiff.del

InKeyOrder(entries) ==
    \A i, j \in 1..Len(entries) :
        (i < j /\ entries[i].kind = entries[j].kind) =>
            EntryRank(entries[i]) < EntryRank(entries[j])

KindRank(e) == CASE e.kind = "DEL" -> 1 [] e.kind = "CREATE" -> 2 [] OTHER -> 3

PreprocessedTTL(a) ==
    IF IsRedirect(a) \/ a.type = "CF_WORKER_ROUTE" THEN 1
    ELSE IF a.ttl = 0 \/ a.ttl = 300 THEN 1
    ELSE IF a.ttl # 1 /\ a.ttl < 120 THEN 120
    ELSE a.ttl

\* C23: after Cloudflare's preprocessing and before diffing every desired
\* record has TTL 1 or a TTL of at least 120: 0 and 300 become 1, any other
\* TTL below 120 becomes 120, redirects and worker routes get 1, and every
\* record whose cloudflare_proxy is not "off" has TTL 1, so that a proxied
\* record never yields a modification for its TTL alone.
C23_CloudflareTTLs ==
    (provider = "cloudflare" /\ pc \in {"once", "done"} /\ err = "") =>
        /\ Len(dc.Records) = Len(authored.Records)
        /\ \A i \in 1..Len(dc.Records) :
            /\ dc.Records[i].ttl = 1 \/ dc.Records[i].ttl >= 120
            /\ pc = "once" => dc.Records[i].ttl = PreprocessedTTL(authored.Records[i])
            /\ pc = "done" =>
                dc.Records[i].ttl = IF dc.Records[i].meta # "off" THEN 1
                                    ELSE PreprocessedTTL(authored.Records[i])
        /\ pc = "done" =>
            \A k \in 1..Len(cs.mod) :
                cs.mod[k].Desired.meta # "off" =>
                    getProxyMetadata(cs.mod[k].Existing)
                        # getProxyMetadata(cs.mod[k].Desired)

\* a proxied record authored with TTL 60 meets its proxied observed record
C23_Witness ==
    /\ provider = "cloudflare"
    /\ pc = "done"
    /\ err = ""
    /\ Len(authored.Records) = 1
    /\ authored.Records[1].ttl = 60
    /\ dc.Records[1].meta = "on"
    /\ dc.Records[1].ttl = 1
    /\ Len(cs.unchanged) = 1
    /\ cs.mod = <<>>

Proxiable(a) == a.type \in {"A", "AAAA", "CNAME", "ALIAS"}

BadProxyValue(v) == ToLower(v) \notin {"on", "off", "full"}

\* the domain's default proxy setting
DefaultProxy ==
    IF authored.Metadata.proxy_default = "" THEN "off"
    ELSE ToLower(authored.Metadata.proxy_default)

\* C24: after preprocessConfig succeeds every desired record's cloudflare_proxy
\* is "on", "off" or "full": A, AAAA, CNAME and ALIAS records keep their value
\* lower-cased or take the domain default ("off" when unset), every other
\* record is "off"; preprocessConfig fails when a record of another type sets
\* cloudflare_proxy or when a record's or the default's value is not
\* on/off/full.
C24_ProxyMetadataNormalized ==
    (provider = "cloudflare" /\ pc = "once") =>
        /\ err = "" =>
            /\ Len(dc.Records) = Len(authored.Records)
            /\ \A i \in 1..Len(dc.Records) :
                /\ dc.Records[i].meta \in {"on", "off", "full"}
                /\ dc.Records[i].meta =
                    IF ~Proxiable(authored.Records[i]) THEN "off"
                    ELSE IF authored.Records[i].meta = "" THEN DefaultProxy
                    ELSE ToLower(authored.Records[i].meta)
        /\ (\/ \E i \in 1..Len(authored.Records) :
                    /\ authored.Records[i].meta # ""
                    /\ \/ ~Proxiable(authored.Records[i])
                       \/ BadProxyValue(authored.Records[i].meta)
            \/ /\ authored.Metadata.proxy_default # ""
               /\ BadProxyValue(authored.Metadata.proxy_default))
            => err # ""

\* one record took the default "full", another kept its own "ON" as "on"
C24_Witness ==
    /\ provider = "cloudflare"
    /\ pc = "once"
    /\ err = ""
    /\ authored.Metadata.proxy_default = "FULL"
    /\ \E i, j \in 1..Len(dc.Records) :
        /\ authored.Records[i].meta = ""
        /\ dc.Records[i].meta = "full"
        /\ authored.Records[j].meta = "ON"
        /\ dc.Records[j].meta = "on"

\* the positions of the redirects in the configuration
Redirects == {i \in 1..Len(authored.Records) : IsRedirect(authored.Records[i])}

\* C25: preprocessConfig rewrites each of the N CF_REDIRECT and
\* CF_TEMP_REDIRECT records into a PAGE_RULE record with TTL 1 and target
\* FROM,TO,PRIO,CODE, CODE being 301 or 302 and the PRIO values being 1..N in
\* reverse definition order; it fails when manage_redirects is off or a target
\* has not exactly two comma-separated parts.
C25_RedirectsNumbered ==
    (provider = "cloudflare" /\ pc = "once") =>
        /\ err = "" =>
            /\ \A i \in Redirects :
                /\ dc.Records[i].type = "PAGE_RULE"
                /\ dc.Records[i].ttl = 1
                /\ dc.Records[i].target = authored.Records[i].target
                /\ dc.Records[i].code =
                    IF authored.Records[i].type = "CF_REDIRECT" THEN 301 ELSE 302
                /\ dc.Records[i].prio = Cardinality({j \in Redirects : j >= i})
            /\ {dc.Records[i].prio : i \in Redirects} = 1..Cardinality(Redirects)
        /\ (/\ Redirects # {}
            /\ \/ ~c.manageRedirects
               \/ \E i \in Redirects : NumParts(authored.Records[i].target) # 2)
            => err # ""

\* two redirects: the one defined first got priority 2, the last one 1
C25_Witness ==
    /\ provider = "cloudflare"
    /\ pc = "once"
    /\ err = ""
    /\ Redirects = {1, 2}
    /\ dc.Records[1].prio = 2
    /\ dc.Records[2].prio = 1
    /\ dc.Records[1].code = 301
    /\ dc.Records[2].code = 302

\* C27: preprocessConfig is idempotent on a configuration it accepts: run on
\* the configuration it left, it succeeds and leaves every record's type, TTL,
\* target and metadata as they were.
C27_PreprocessIdempotent ==
    [][(pc = "once" /\ pc' = "twice") => (err' = "" /\ dc' = dc)]_vars

\* C26: every cloudflare_universalssl value preprocessConfig accepts is taken
\* by checkUniversalSSL with the meaning it was validated as: accepted as
\* "off" in any letter case the desired state is disabled, accepted as "on"
\* in any letter case it is enabled.
C26_UniversalSSLMeaningKept ==
    (/\ provider = "cloudflare"
     /\ pc = "done"
     /\ err = ""
     /\ sslFetch = "ok"
     /\ authored.Metadata.universalssl # "") =>
        /\ checkUniversalSSL(dc, TRUE, ussl).err = ""
        /\ checkUniversalSSL(dc, TRUE, ussl).newState
            = (ToLower(authored.Metadata.universalssl) = "on")

\* C28: the record an Exoscale update correction sends equals the desired
\* record in label, type, content, TTL and priority (MX preference or SRV
\* priority) whatever the desired values are, MX preference 0 and TTL 0
\* included: no value of the old record survives where the desired one differs.
C28_UpdateSendsDesired ==
    (provider = "exoscale" /\ pc = "updated") =>
        /\ record.Name = exoscaleName(rc)
        /\ record.Type = rc.type
        /\ record.Content =
            IF rc.type = "SRV" THEN <<"5", "443", rc.target>> ELSE <<rc.target>>
        /\ record.TTL = rc.ttl
        /\ rc.type = "MX" => record.Priority = rc.MxPreference
        /\ rc.type = "SRV" => record.Priority = rc.SrvPriority

Occurrences(x, s) == Cardinality({i \in 1..Len(s) : s[i] = x})

\* the same names, each as often, in whatever order
SameNames(s, t) ==
    /\ Len(s) = Len(t)
    /\ \A x \in Range(s) \cup Range(t) : Occurrences(x, s) = Occurrences(x, t)

Ascending(s) == \A i, j \in 1..Len(s) : i < j => ~StringLess(s[j], s[i])

\* C29: hosting.de's GetRegistrarCorrections compares the nameservers as
\* collections without order: no correction when the registrar's nameservers
\* and the zone's declared nameservers are the same names in whatever order,
\* and otherwise exactly one "Update nameservers" correction that carries the
\* sorted declared list.
C29_NameserversCompared ==
    (provider = "hostingde" /\ pc = "registrar" /\ err = "") =>
        IF SameNames(registrar, expectedNames(dc))
        THEN corrections = <<>>
        ELSE /\ Len(corrections) = 1
             /\ corrections[1].kind = "Update nameservers"
             /\ SameNames(corrections[1].lines, expectedNames(dc))
             /\ Ascending(corrections[1].lines)

\* the registrar lists the two declared nameservers in the other order
C29_Witness ==
    /\ provider = "hostingde"
    /\ pc = "registrar"
    /\ err = ""
    /\ Len(registrar) = 2
    /\ registrar # expectedNames(dc)
    /\ SameNames(registrar, expectedNames(dc))
    /\ corrections = <<>>

====
